---------------------------- MODULE Spec2Model ----------------------------
(***************************************************************************)
(* Model of torchlft.functional.transforms: the elementwise bijectors      *)
(* (tanh, translation, rescaling, soft_rescaling, affine_transform) and    *)
(* the rational-quadratic spline bijector, each with its inverse.          *)
(*                                                                         *)
(* Arithmetic is exact.  A real number is a fraction [n, d] in lowest      *)
(* terms with d > 0; the IEEE specials the tensor library produces are     *)
(* the fractions with d = 0: 1/0 is +inf, -1/0 is -inf and 0/0 is NaN.     *)
(* A logarithm is never evaluated: the number ln(q) is the value           *)
(* [log |-> q], so that adding logarithms multiplies their arguments and   *)
(* two logarithms are equal exactly when their arguments are.              *)
(***************************************************************************)
EXTENDS Integers, Sequences, FiniteSets

\* fn     the bijector called: "rq_spline" or an elementwise one
\* x      the input tensor, params the parameter tensors of the call
\* pc     "start", then "forward" once the forward map was called on x and
\*        "round_trip" once the inverse was called on its output, or
\*        "inverse" once the inverse was called on x itself
\* fwd    what the forward call gave, inv what the inverse call gave
VARIABLES pc, fn, x, params, fwd, inv

vars == <<pc, fn, x, params, fwd, inv>>

---------------------------------------------------------------------------
(* Extended rational arithmetic: what torch's float tensors compute,       *)
(* without rounding.                                                       *)

Abs(i) == IF i < 0 THEN -i ELSE i

Sign(i) == IF i > 0 THEN 1 ELSE IF i < 0 THEN -1 ELSE 0

RECURSIVE GCD(_, _)
GCD(a, b) == IF b = 0 THEN a ELSE GCD(b, a % b)

Norm(n, d) ==
    IF d = 0 THEN [n |-> Sign(n), d |-> 0]
    ELSE LET g == GCD(Abs(n), Abs(d))
             sg == Sign(d)
         IN  [n |-> (sg * n) \div g, d |-> (sg * d) \div g]

Num(i) == [n |-> i, d |-> 1]
Frac(a, b) == Norm(a, b)
Zero == Num(0)
One == Num(1)
NaN == [n |-> 0, d |-> 0]
PosInf == [n |-> 1, d |-> 0]
NegInf == [n |-> -1, d |-> 0]

IsNaN(a) == a.d = 0 /\ a.n = 0
IsInf(a) == a.d = 0 /\ a.n # 0
IsFinite(a) == a.d > 0

\* a + b; inf + (-inf) and anything with NaN are NaN.
Add(a, b) ==
    IF IsNaN(a) \/ IsNaN(b) THEN NaN
    ELSE IF IsInf(a) /\ IsInf(b) THEN (IF a.n = b.n THEN a ELSE NaN)
    ELSE IF IsInf(a) THEN a
    ELSE IF IsInf(b) THEN b
    ELSE Norm(a.n * b.d + b.n * a.d, a.d * b.d)

Neg(a) == [n |-> -a.n, d |-> a.d]

Sub(a, b) == Add(a, Neg(b))

\* a * b; 0 * inf is NaN.
Mul(a, b) == Norm(a.n * b.n, a.d * b.d)

\* 1 / a; 1/0 is +inf and 1/inf is 0.
Reciprocal(a) ==
    IF IsNaN(a) THEN NaN
    ELSE IF a.n = 0 THEN PosInf
    ELSE IF a.d = 0 THEN Zero
    ELSE Norm(a.d, a.n)

Div(a, b) == Mul(a, Reciprocal(b))

Pow2(a) == Mul(a, a)

\* a < b; false when either is NaN.
Lt(a, b) ==
    IF IsNaN(a) \/ IsNaN(b) THEN FALSE
    ELSE IF IsInf(a) \/ IsInf(b)
         THEN (IF IsInf(a) /\ IsInf(b) THEN a.n < b.n
               ELSE IF IsInf(a) THEN a.n < 0
               ELSE b.n > 0)
    ELSE a.n * b.d < b.n * a.d

Gt(a, b) == Lt(b, a)

\* Tensor.clamp_(lo, hi): NaN stays NaN.
Clamp(a, lo, hi) ==
    IF IsNaN(a) THEN NaN
    ELSE IF Lt(a, lo) THEN lo
    ELSE IF Gt(a, hi) THEN hi
    ELSE a

ClampInt(i, lo, hi) == IF i < lo THEN lo ELSE IF i > hi THEN hi ELSE i

RECURSIVE ISqrtFrom(_, _)
ISqrtFrom(k, r) == IF (r + 1) * (r + 1) > k THEN r ELSE ISqrtFrom(k, r + 1)

\* floor of the square root of a natural number
ISqrt(k) == ISqrtFrom(k, 0)

IsSquare(k) == k >= 0 /\ ISqrt(k) * ISqrt(k) = k

\* Whether Tensor.sqrt() of a has an exact value in the model: NaN, a
\* negative number (NaN), an infinity, or a fraction of two squares.
HasExactSqrt(a) ==
    \/ a.d = 0
    \/ a.n < 0
    \/ IsSquare(a.n) /\ IsSquare(a.d)

\* Tensor.sqrt(): NaN for a negative number.
Sqrt(a) ==
    IF IsNaN(a) THEN NaN
    ELSE IF a.n < 0 THEN NaN
    ELSE IF a.d = 0 THEN PosInf
    ELSE Norm(ISqrt(a.n), ISqrt(a.d))

---------------------------------------------------------------------------
(* Logarithms.  [log |-> q] is ln(q): ln(0) is -inf, ln(+inf) is +inf and  *)
(* the logarithm of a negative number or of NaN is NaN.                    *)

Log(q) == [log |-> IF IsNaN(q) \/ q.n < 0 THEN NaN ELSE q]

\* Tensor.neg() of a logarithm: -ln(q) = ln(1/q)
LogNeg(l) == [log |-> Reciprocal(l.log)]

\* the sum of two logarithms: ln(p) + ln(q) = ln(p*q)
LogAdd(l, m) == [log |-> Mul(l.log, m.log)]

\* Tensor.mul(-2) of a logarithm: -2 ln(q) = ln(1/q^2)
LogMulMinus2(l) == [log |-> Reciprocal(Pow2(l.log))]

LogZero == [log |-> One]

---------------------------------------------------------------------------
(* Tensors of shape (batch, coordinates): a sequence of rows.              *)

MapT(F(_), t) == [i \in DOMAIN t |-> [j \in DOMAIN t[i] |-> F(t[i][j])]]

AllT(P(_), t) == \A i \in DOMAIN t : \A j \in DOMAIN t[i] : P(t[i][j])

RECURSIVE LogSumSeq(_)
LogSumSeq(row) ==
    IF row = <<>> THEN LogZero ELSE LogAdd(row[1], LogSumSeq(Tail(row)))

\* torchlft.utils.sum_except_batch: one sum per row of the tensor it is
\* given (axis 0 is the batch axis).
SumExceptBatch(t) == [i \in DOMAIN t |-> LogSumSeq(t[i])]

\* torch.zeros(n)
Zeros(n) == [i \in 1..n |-> LogZero]

\* what a call gives: the pair (out, ldj) it returns, or the error it raises
Returned(out, ldj) == [status |-> "ok", out |-> out, ldj |-> ldj]

Aborted(err) == [status |-> err, out |-> <<>>, ldj |-> <<>>]

---------------------------------------------------------------------------
(* The elementwise bijectors.  x and the parameters are tensors of shape   *)
(* (batch, coordinates); a parameter may have one row, or one column, and  *)
(* then broadcasts against x.  log_scale s is given as a logarithm         *)
(* [log |-> q], so that e^s = q; the input of tanh is given as a logarithm *)
(* ln(u), where tanh and cosh are rational in u; the scale of              *)
(* soft_rescaling is given by the value c = log(1 + e^scale) it stands     *)
(* for, [softplus_inv |-> c].                                              *)

\* x.<op>(t) with t broadcast to the shape of x
Broadcast(F(_, _), xt, t) ==
    [i \in DOMAIN xt |->
       [j \in DOMAIN xt[i] |->
          F(xt[i][j], t[IF Len(t) = 1 THEN 1 ELSE i][IF Len(t[1]) = 1 THEN 1 ELSE j])]]

\* Tensor.exp() of a logarithm
Exp(l) == l.log

\* tanh(ln u) = (u^2 - 1) / (u^2 + 1)
TanhOf(l) == Div(Sub(Pow2(l.log), One), Add(Pow2(l.log), One))

\* cosh(ln u) = (u + 1/u) / 2
CoshOf(l) == Div(Add(l.log, Reciprocal(l.log)), Num(2))

\* the number whose square root atanh takes: atanh(y) = ln sqrt((1 + y) / (1 - y))
AtanhArg(q) == Div(Add(One, q), Sub(One, q))

Atanh(q) == Log(Sqrt(AtanhArg(q)))

\* Tensor.log1p()
Log1p(q) == Log(Add(One, q))

\* scale.exp().log1p()
Softplus(sc) == sc.softplus_inv

tanh(xt) ==
    Returned(MapT(TanhOf, xt),
             SumExceptBatch(MapT(LAMBDA l : LogMulMinus2(Log(CoshOf(l))), xt)))

inv_tanh(yt) ==
    Returned(MapT(Atanh, yt),
             SumExceptBatch(MapT(LAMBDA q : LogNeg(Log1p(Neg(Pow2(q)))), yt)))

translation(xt, shift) == Returned(Broadcast(Add, xt, shift), Zeros(Len(xt)))

inv_translation(yt, shift) == Returned(Broadcast(Sub, yt, shift), Zeros(Len(yt)))

rescaling(xt, log_scale) ==
    Returned(Broadcast(LAMBDA q, l : Mul(q, Exp(LogNeg(l))), xt, log_scale),
             SumExceptBatch(MapT(LogNeg, log_scale)))

inv_rescaling(yt, log_scale) ==
    Returned(Broadcast(LAMBDA q, l : Mul(q, Exp(l)), yt, log_scale),
             SumExceptBatch(log_scale))

soft_rescaling(xt, scale) ==
    LET soft_scale == MapT(Softplus, scale)
    IN  Returned(Broadcast(Mul, xt, soft_scale),
                 SumExceptBatch(MapT(Log, soft_scale)))

inv_soft_rescaling(yt, scale) ==
    LET soft_scale == MapT(Softplus, scale)
    IN  Returned(Broadcast(Div, yt, soft_scale),
                 SumExceptBatch(MapT(LAMBDA q : LogNeg(Log(q)), soft_scale)))

affine_transform(xt, log_scale, shift) ==
    Returned(Broadcast(Add,
                       Broadcast(LAMBDA q, l : Mul(q, Exp(LogNeg(l))), xt, log_scale),
                       shift),
             SumExceptBatch(MapT(LogNeg, log_scale)))

\* a plausible slip: x = y * e^s - t, the scaling before the shift
inv_affine_transform_scaled_first(yt, log_scale, shift) ==
    Returned(Broadcast(Sub,
                       Broadcast(LAMBDA q, l : Mul(q, Exp(l)), yt, log_scale),
                       shift),
             SumExceptBatch(log_scale))

inv_affine_transform(yt, log_scale, shift) ==
    Returned(Broadcast(LAMBDA q, l : Mul(q, Exp(l)),
                       Broadcast(Sub, yt, shift), log_scale),
             SumExceptBatch(log_scale))

---------------------------------------------------------------------------
(* The rational-quadratic spline.  The parameter tensors hold one spline   *)
(* of K segments, the same for every coordinate of the input.              *)

\* x < knots[..., 0] or x > knots[..., -1]; the log.debug message about the
\* share of such inputs changes nothing and is left out
OutsideInterval(v, knots) == Lt(v, knots[1]) \/ Gt(v, knots[Len(knots)])

\* torch.searchsorted(knots, v) of a sorted sequence: the number of knots
\* strictly below v (the first position whose knot is >= v).
SearchSorted(knots, v) == Cardinality({i \in DOMAIN knots : Lt(knots[i], v)})

\* the upper limit of segment_idx.clamp_(0, widths.shape[-1])
SegmentIdxMax(widths) == Len(widths)

\* segment_idx, zero-based as in the source
SegmentIdx(knots, v, widths) ==
    ClampInt(SearchSorted(knots, v) - 1, 0, SegmentIdxMax(widths))

\* torch.gather(t, -1, idx) raises unless 0 <= idx < t.shape[-1]
GatherInBounds(t, idx) == 0 <= idx /\ idx < Len(t)

Gather(t, idx) == t[idx + 1]

\* the six gathers of both directions succeed at segment index idx
GathersInBounds(p, idx) ==
    /\ GatherInBounds(p.widths, idx)
    /\ GatherInBounds(p.heights, idx)
    /\ GatherInBounds(p.derivs, idx)
    /\ GatherInBounds(p.derivs, idx + 1)
    /\ GatherInBounds(p.knots_xcoords, idx)
    /\ GatherInBounds(p.knots_ycoords, idx)

\* the gathered parameters of segment idx
Segment(p, idx) ==
    [w  |-> Gather(p.widths, idx),
     h  |-> Gather(p.heights, idx),
     d0 |-> Gather(p.derivs, idx),
     d1 |-> Gather(p.derivs, idx + 1),
     x0 |-> Gather(p.knots_xcoords, idx),
     y0 |-> Gather(p.knots_ycoords, idx)]

Slope(g) == Div(g.h, g.w)

\* alpha = (x - x0) / w; alpha.clamp_(0, 1)
Alpha(v, g) == Clamp(Div(Sub(v, g.x0), g.w), Zero, One)

\* 1 / (s + (d1 + d0 - 2 s) alpha (1 - alpha))
DenominatorRecip(g, alpha) ==
    LET s == Slope(g)
    IN  Reciprocal(Add(s, Mul(Mul(Sub(Add(g.d1, g.d0), Mul(Num(2), s)), alpha),
                              Sub(One, alpha))))

\* beta = (s alpha^2 + d0 alpha (1 - alpha)) * denominator_recip
Beta(g, alpha) ==
    LET s == Slope(g)
    IN  Mul(Add(Mul(s, Pow2(alpha)), Mul(Mul(g.d0, alpha), Sub(One, alpha))),
            DenominatorRecip(g, alpha))

\* a plausible slip: the two bracketing derivatives exchanged
GradientDerivsSwapped(g, alpha) ==
    LET s == Slope(g)
    IN  Mul(Mul(Pow2(s),
                Add(Add(Mul(g.d0, Pow2(alpha)),
                        Mul(Mul(Mul(Num(2), s), alpha), Sub(One, alpha))),
                    Mul(g.d1, Pow2(Sub(One, alpha))))),
            Pow2(DenominatorRecip(g, alpha)))

\* s^2 (d1 alpha^2 + 2 s alpha (1 - alpha) + d0 (1 - alpha)^2) * denominator_recip^2
Gradient(g, alpha) ==
    LET s == Slope(g)
    IN  Mul(Mul(Pow2(s),
                Add(Add(Mul(g.d1, Pow2(alpha)),
                        Mul(Mul(Mul(Num(2), s), alpha), Sub(One, alpha))),
                    Mul(g.d0, Pow2(Sub(One, alpha))))),
            Pow2(DenominatorRecip(g, alpha)))

\* a plausible slip: assert torch.all(gradient >= 0)
GradientAssertionNonNegative(gradient) ==
    AllT(LAMBDA q : ~IsNaN(q) /\ ~Lt(q, Zero), gradient)

\* assert torch.all(gradient > 0)
GradientAssertion(gradient) == AllT(LAMBDA q : Gt(q, Zero), gradient)

\* y[outside_interval_mask] = x[outside_interval_mask]
MaskedOverwrite(y, v, knots) == IF OutsideInterval(v, knots) THEN v ELSE y

\* the forward pass at one coordinate: y after the masked overwrite, and
\* the analytic gradient
FwdCoord(v, p) ==
    LET g == Segment(p, SegmentIdx(p.knots_xcoords, v, p.widths))
        alpha == Alpha(v, g)
    IN  [y        |-> MaskedOverwrite(Add(g.y0, Mul(g.h, Beta(g, alpha))),
                                      v, p.knots_xcoords),
         gradient |-> Gradient(g, alpha)]

\* ldj = sum_except_batch(gradient.log())
FwdLdj(gradient) == SumExceptBatch(MapT(Log, gradient))

rq_spline_transform(xt, p) ==
    IF ~AllT(LAMBDA v : GathersInBounds(p, SegmentIdx(p.knots_xcoords, v, p.widths)), xt)
    THEN Aborted("RuntimeError")
    ELSE LET coords == MapT(LAMBDA v : FwdCoord(v, p), xt)
             gradient == MapT(LAMBDA c : c.gradient, coords)
         IN  IF ~GradientAssertion(gradient)
             THEN Aborted("AssertionError")
             ELSE Returned(MapT(LAMBDA c : c.y, coords), FwdLdj(gradient))

\* beta = (y - y0) / w; beta.clamp_(0, 1)
InvBeta(v, g) == Clamp(Div(Sub(v, g.y0), g.w), Zero, One)

QuadB(g, beta) ==
    Sub(g.d0, Mul(Sub(Add(g.d1, g.d0), Mul(Num(2), Slope(g))), beta))

QuadA(g, beta) == Sub(Slope(g), QuadB(g, beta))

QuadC(g, beta) == Mul(Neg(Slope(g)), beta)

\* b^2 - 4 a c
Discriminant(g, beta) ==
    Sub(Pow2(QuadB(g, beta)),
        Mul(Mul(Num(4), QuadA(g, beta)), QuadC(g, beta)))

\* alpha = -2 c / (b + sqrt(b^2 - 4 a c))
InvAlpha(g, beta) ==
    Mul(Mul(Num(-2), QuadC(g, beta)),
        Reciprocal(Add(QuadB(g, beta), Sqrt(Discriminant(g, beta)))))

\* the inverse pass at one coordinate: x, and the forward gradient there
InvCoord(v, p) ==
    LET g == Segment(p, SegmentIdx(p.knots_ycoords, v, p.widths))
        alpha == InvAlpha(g, InvBeta(v, g))
    IN  [x            |-> Add(g.x0, Mul(g.w, alpha)),
         gradient_fwd |-> Gradient(g, alpha)]

\* ldj = sum_except_batch(gradient_fwd.log().neg())
InvLdj(gradient) == SumExceptBatch(MapT(LAMBDA q : LogNeg(Log(q)), gradient))

inv_rq_spline_transform(yt, p) ==
    IF ~AllT(LAMBDA v : GathersInBounds(p, SegmentIdx(p.knots_ycoords, v, p.widths)), yt)
    THEN Aborted("RuntimeError")
    ELSE LET coords == MapT(LAMBDA v : InvCoord(v, p), yt)
         IN  Returned(MapT(LAMBDA c : c.x, coords),
                      InvLdj(MapT(LAMBDA c : c.gradient_fwd, coords)))

\* every square root the inverse takes of yt has an exact value
InvSqrtExact(yt, p) ==
    AllT(LAMBDA v :
           LET idx == SegmentIdx(p.knots_ycoords, v, p.widths)
           IN  GathersInBounds(p, idx) =>
                 HasExactSqrt(Discriminant(Segment(p, idx), InvBeta(v, Segment(p, idx)))),
         yt)

---------------------------------------------------------------------------
(* The calls of the spline bijector the model makes.                       *)

MaxK == 2

WidthValues == {1, 2}
HeightValues == {1, 2}
DerivValues == {1, 2}
BadDerivValues == {-1, 0, 1, 2}

NotCalled == [status |-> "none", out |-> <<>>, ldj |-> <<>>]

RECURSIVE CumSum(_, _)
\* the knots: lower, lower + t[1], lower + t[1] + t[2], ...
CumSum(lower, t) ==
    IF t = <<>> THEN <<Num(lower)>>
    ELSE <<Num(lower)>> \o CumSum(lower + t[1], Tail(t))

NumSeq(t) == [i \in DOMAIN t |-> Num(t[i])]

\* knots_xcoords starts at 0 and knots_ycoords at 1
SplineParams(widths, heights, derivs) ==
    [widths        |-> NumSeq(widths),
     heights       |-> NumSeq(heights),
     derivs        |-> NumSeq(derivs),
     knots_xcoords |-> CumSum(0, widths),
     knots_ycoords |-> CumSum(1, heights)]

\* positive widths, heights and derivs
ValidParamSets ==
    UNION {{SplineParams(widths, heights, derivs) :
              widths \in [1 .. K -> WidthValues],
              heights \in [1 .. K -> HeightValues],
              derivs \in [1 .. K + 1 -> DerivValues]} : K \in 1 .. MaxK}

\* unit segments whose derivs need not be positive
MalformedParamSets ==
    UNION {{SplineParams([i \in 1 .. K |-> 1], [i \in 1 .. K |-> 1], derivs) :
              derivs \in [1 .. K + 1 -> BadDerivValues]} : K \in 1 .. MaxK}

\* input coordinates: below, on, between and above the knots
XGrid == {Frac(k, 2) : k \in -1 .. (4 * MaxK + 1)}
XCoarse == {Frac(-1, 2), Frac(1, 2), Num(1)}

SplineInputs ==
    {<<<<v>>>> : v \in XGrid}
      \cup {<<<<v, u>>>> : v \in XCoarse, u \in XCoarse}
      \cup {<<<<v>>, <<u>>>> : v \in XCoarse, u \in XCoarse}

SplineInit ==
    /\ pc = "start"
    /\ fn = "rq_spline"
    /\ params \in ValidParamSets \cup MalformedParamSets
    /\ x \in SplineInputs
    /\ fwd = NotCalled
    /\ inv = NotCalled

\* y, ldj = rq_spline_transform(x, *params)
RqSplineTransform ==
    /\ pc = "start"
    /\ fn = "rq_spline"
    /\ fwd' = rq_spline_transform(x, params)
    /\ pc' = "forward"
    /\ UNCHANGED <<fn, x, params, inv>>

\* x, ldj = inv_rq_spline_transform(y, *params), of the input itself or of
\* what the forward pass returned. The model makes the call when every
\* discriminant has a rational square root, so that the result is exact.
InvRqSplineTransform ==
    /\ fn = "rq_spline"
    /\ \/ pc = "start"
       \/ pc = "forward" /\ fwd.status = "ok"
    /\ LET yt == IF pc = "start" THEN x ELSE fwd.out
       IN  /\ InvSqrtExact(yt, params)
           /\ inv' = inv_rq_spline_transform(yt, params)
    /\ pc' = IF pc = "start" THEN "inverse" ELSE "round_trip"
    /\ UNCHANGED <<fn, x, params, fwd>>

SplineNext == RqSplineTransform \/ InvRqSplineTransform

Spec == SplineInit /\ [][SplineNext]_vars

---------------------------------------------------------------------------
(* The calls of the elementwise bijectors the model makes: the forward     *)
(* map of x, then its inverse of what the forward map returned.            *)

MaxScale == 2

\* x has shape (2, 2)
XValues == {Num(-1), Frac(3, 2)}
\* e^x of the input of tanh
TanhArgs == {Frac(1, 2), Num(1), Num(3)}
\* e^s of log_scale, and log(1 + e^s) of scale
ScaleArgs == {Frac(1, 2)} \cup {Num(k) : k \in 2 .. MaxScale}
ShiftValues == {Num(1), Num(-2)}

Tensors(S, rows, cols) == [1 .. rows -> [1 .. cols -> S]]

\* a scale per coordinate, or one shared across the batch, the coordinates
\* or both
ScaleTensors(S) ==
    Tensors(S, 1, 1) \cup Tensors(S, 1, 2) \cup Tensors(S, 2, 1) \cup Tensors(S, 2, 2)

ShiftTensors == Tensors(ShiftValues, 1, 1) \cup Tensors(ShiftValues, 1, 2)

LogScales == ScaleTensors({Log(q) : q \in ScaleArgs})

Scales == ScaleTensors({[softplus_inv |-> q] : q \in ScaleArgs})

ElemParams(log_scale, scale, shift) ==
    [log_scale |-> log_scale, scale |-> scale, shift |-> shift]

ElemFns == {"tanh", "translation", "rescaling", "soft_rescaling", "affine_transform"}

ElemInit ==
    /\ pc = "start"
    /\ fn \in ElemFns
    /\ x \in IF fn = "tanh" THEN Tensors({Log(u) : u \in TanhArgs}, 2, 2)
             ELSE Tensors(XValues, 2, 2)
    /\ params \in
         CASE fn = "tanh" -> {ElemParams(<<>>, <<>>, <<>>)}
           [] fn = "translation" -> {ElemParams(<<>>, <<>>, t) : t \in ShiftTensors}
           [] fn = "rescaling" -> {ElemParams(l, <<>>, <<>>) : l \in LogScales}
           [] fn = "soft_rescaling" -> {ElemParams(<<>>, sc, <<>>) : sc \in Scales}
           [] fn = "affine_transform" ->
                {ElemParams(l, <<>>, t) : l \in LogScales, t \in ShiftTensors}
    /\ fwd = NotCalled
    /\ inv = NotCalled

\* y, ldj = tanh(x)
Tanh ==
    /\ pc = "start"
    /\ fn = "tanh"
    /\ fwd' = tanh(x)
    /\ pc' = "forward"
    /\ UNCHANGED <<fn, x, params, inv>>

\* x, ldj = inv_tanh(y); every square root atanh takes is exact
InvTanh ==
    /\ pc = "forward"
    /\ fn = "tanh"
    /\ AllT(LAMBDA q : HasExactSqrt(AtanhArg(q)), fwd.out)
    /\ inv' = inv_tanh(fwd.out)
    /\ pc' = "round_trip"
    /\ UNCHANGED <<fn, x, params, fwd>>

\* y, ldj = translation(x, shift)
Translation ==
    /\ pc = "start"
    /\ fn = "translation"
    /\ fwd' = translation(x, params.shift)
    /\ pc' = "forward"
    /\ UNCHANGED <<fn, x, params, inv>>

\* x, ldj = inv_translation(y, shift)
InvTranslation ==
    /\ pc = "forward"
    /\ fn = "translation"
    /\ inv' = inv_translation(fwd.out, params.shift)
    /\ pc' = "round_trip"
    /\ UNCHANGED <<fn, x, params, fwd>>

\* y, ldj = rescaling(x, log_scale)
Rescaling ==
    /\ pc = "start"
    /\ fn = "rescaling"
    /\ fwd' = rescaling(x, params.log_scale)
    /\ pc' = "forward"
    /\ UNCHANGED <<fn, x, params, inv>>

\* x, ldj = inv_rescaling(y, log_scale)
InvRescaling ==
    /\ pc = "forward"
    /\ fn = "rescaling"
    /\ inv' = inv_rescaling(fwd.out, params.log_scale)
    /\ pc' = "round_trip"
    /\ UNCHANGED <<fn, x, params, fwd>>

\* y, ldj = soft_rescaling(x, scale)
SoftRescaling ==
    /\ pc = "start"
    /\ fn = "soft_rescaling"
    /\ fwd' = soft_rescaling(x, params.scale)
    /\ pc' = "forward"
    /\ UNCHANGED <<fn, x, params, inv>>

\* x, ldj = inv_soft_rescaling(y, scale)
InvSoftRescaling ==
    /\ pc = "forward"
    /\ fn = "soft_rescaling"
    /\ inv' = inv_soft_rescaling(fwd.out, params.scale)
    /\ pc' = "round_trip"
    /\ UNCHANGED <<fn, x, params, fwd>>

\* y, ldj = affine_transform(x, log_scale, shift)
AffineTransform ==
    /\ pc = "start"
    /\ fn = "affine_transform"
    /\ fwd' = affine_transform(x, params.log_scale, params.shift)
    /\ pc' = "forward"
    /\ UNCHANGED <<fn, x, params, inv>>

\* x, ldj = inv_affine_transform(y, log_scale, shift)
InvAffineTransform ==
    /\ pc = "forward"
    /\ fn = "affine_transform"
    /\ inv' = inv_affine_transform(fwd.out, params.log_scale, params.shift)
    /\ pc' = "round_trip"
    /\ UNCHANGED <<fn, x, params, fwd>>

ElemNext ==
    \/ Tanh \/ InvTanh
    \/ Translation \/ InvTranslation
    \/ Rescaling \/ InvRescaling
    \/ SoftRescaling \/ InvSoftRescaling
    \/ AffineTransform \/ InvAffineTransform

ElemSpec == ElemInit /\ [][ElemNext]_vars

---------------------------------------------------------------------------
(* Properties of the elementwise bijectors.                                *)

\* C7: inverse laws. For each elementwise pair, the inverse of what the
\* forward map returned, with the same parameters, is x, and the ldj of the
\* forward map at x is the negative of the ldj the inverse reports.
C7_ElementwiseInverseLaws ==
    (pc = "round_trip" /\ fn \in ElemFns)
      => /\ fwd.status = "ok" /\ inv.status = "ok"
         /\ inv.out = x
         /\ fwd.ldj = [i \in DOMAIN inv.ldj |-> LogNeg(inv.ldj[i])]

C7_Witness ==
    /\ pc = "round_trip"
    /\ fn = "affine_transform"
    /\ Len(params.log_scale) = 2 /\ Len(params.log_scale[1]) = 2
    /\ params.log_scale[1][1] # params.log_scale[2][2]
    /\ fwd.out # x
    /\ fwd.ldj[1] # LogZero

\* the log of the derivative of the forward map at each coordinate of x:
\* -s for rescaling and affine_transform, log(log(1 + e^s)) for soft_rescaling
LogDerivative(xt, p) ==
    IF fn = "soft_rescaling"
    THEN Broadcast(LAMBDA q, sc : Log(Softplus(sc)), xt, p.scale)
    ELSE Broadcast(LAMBDA q, l : LogNeg(l), xt, p.log_scale)

\* C8: with a scale of any shape broadcastable to x, the ldj of rescaling,
\* soft_rescaling and affine_transform has one entry per batch element of x,
\* the sum over that element's coordinates of the log-derivative; the ldj of
\* the inverse is its negative.
C8_LdjPerBatchElement ==
    (fn \in {"rescaling", "soft_rescaling", "affine_transform"})
      => /\ pc \in {"forward", "round_trip"} =>
              fwd.ldj = SumExceptBatch(LogDerivative(x, params))
         /\ pc = "round_trip" =>
              inv.ldj = SumExceptBatch(MapT(LogNeg, LogDerivative(x, params)))

---------------------------------------------------------------------------
(* Properties of the spline bijector.                                      *)

Coords(t) == {<<i, j>> : i \in DOMAIN t, j \in DOMAIN t[1]}

At(t, c) == t[c[1]][c[2]]

NumSegments(p) == Len(p.widths)

\* positive widths, heights and derivs; the knots are cumulative sums by
\* construction
ValidParams(p) ==
    /\ \A i \in DOMAIN p.widths : Gt(p.widths[i], Zero) /\ Gt(p.heights[i], Zero)
    /\ \A i \in DOMAIN p.derivs : Gt(p.derivs[i], Zero)

InInterval(v, knots) == ~Lt(v, knots[1]) /\ ~Gt(v, knots[Len(knots)])

\* the tensor the inverse was called with
InvInput == IF pc = "round_trip" THEN fwd.out ELSE x

InvCalled == pc \in {"inverse", "round_trip"}

\* C1: round trip. With valid parameters and every coordinate of x inside
\* [knots_xcoords[0], knots_xcoords[-1]], the inverse applied to what the
\* forward pass returned gives x back, also when a width differs from its
\* height.
C1_SplineRoundTrip ==
    (/\ pc = "round_trip"
     /\ ValidParams(params)
     /\ \A c \in Coords(x) : InInterval(At(x, c), params.knots_xcoords))
      => (inv.status = "ok" /\ inv.out = x)

\* C2: forward identity outside the domain. For a coordinate strictly below
\* the first knot or strictly above the last, the forward pass returns and
\* its output there is x.
C2_ForwardIdentityOutside ==
    (pc = "forward" /\ ValidParams(params))
      => \A c \in Coords(x) :
           OutsideInterval(At(x, c), params.knots_xcoords)
             => (fwd.status = "ok" /\ At(fwd.out, c) = At(x, c))

\* the sum of log(gradient) over the in-interval coordinates of each row
LdjInInterval(xt, p) ==
    SumExceptBatch(MapT(LAMBDA v : IF OutsideInterval(v, p.knots_xcoords)
                                   THEN LogZero
                                   ELSE Log(FwdCoord(v, p).gradient), xt))

\* C3: a coordinate outside the interval adds 0 to the forward ldj: the ldj
\* returned is the sum of log(gradient) over the in-interval coordinates.
C3_ForwardLdjSkipsOutside ==
    (pc = "forward" /\ ValidParams(params) /\ fwd.status = "ok")
      => fwd.ldj = LdjInInterval(x, params)

\* C4: inverse identity outside the domain. For a coordinate y below
\* knots_ycoords[0] or above knots_ycoords[-1], the x the inverse returns
\* there is y.
C4_InverseIdentityOutside ==
    (InvCalled /\ ValidParams(params) /\ inv.status = "ok")
      => \A c \in Coords(InvInput) :
           OutsideInterval(At(InvInput, c), params.knots_ycoords)
             => At(inv.out, c) = At(InvInput, c)

\* The discriminant b^2 - 4ac equals (b - 2 s beta)^2 + 4 s^2 beta (1 - beta)
\* and beta is clamped to [0, 1]: no input of the inverse, with positive
\* derivs or not, makes it negative.
DiscriminantNeverNegative ==
    (pc = "start" /\ fn = "rq_spline")
      => \A c \in Coords(x) :
           LET idx == SegmentIdx(params.knots_ycoords, At(x, c), params.widths)
           IN  GathersInBounds(params, idx)
                 => LET g == Segment(params, idx)
                    IN  /\ IsFinite(Discriminant(g, InvBeta(At(x, c), g)))
                        /\ ~Lt(Discriminant(g, InvBeta(At(x, c), g)), Zero)

\* every gradient the forward pass computes, when its gathers succeed
FwdGradients(xt, p) == MapT(LAMBDA v : FwdCoord(v, p).gradient, xt)

\* C6: a gradient that is not strictly positive at some coordinate aborts
\* the forward call with nothing returned; gradients that are strictly
\* positive everywhere let it return.
C6_GradientAssertionFatal ==
    (pc = "forward" /\ fwd.status # "RuntimeError")
      => IF \A c \in Coords(x) : Gt(At(FwdGradients(x, params), c), Zero)
         THEN fwd.status = "ok" /\ Len(fwd.out) = Len(x) /\ Len(fwd.ldj) = Len(x)
         ELSE fwd.status = "AssertionError" /\ fwd.out = <<>> /\ fwd.ldj = <<>>

C6_Witness ==
    /\ pc = "forward"
    /\ fwd.status = "AssertionError"
    /\ \E c \in Coords(x) : Gt(At(FwdGradients(x, params), c), Zero)
    /\ \E c \in Coords(x) : At(FwdGradients(x, params), c) = Zero

\* C9: the clamped segment index lies in [0, K-1] for every input of either
\* direction, so no gather is out of bounds and no error is raised.
C9_SegmentIndexInRange ==
    /\ (pc = "forward" /\ ValidParams(params)) =>
         /\ \A c \in Coords(x) :
              SegmentIdx(params.knots_xcoords, At(x, c), params.widths)
                \in 0 .. NumSegments(params) - 1
         /\ fwd.status # "RuntimeError"
    /\ (InvCalled /\ ValidParams(params)) =>
         /\ \A c \in Coords(InvInput) :
              SegmentIdx(params.knots_ycoords, At(InvInput, c), params.widths)
                \in 0 .. NumSegments(params) - 1
         /\ inv.status # "RuntimeError"

\* the rational-quadratic map of segment idx (zero-based) evaluated at v
SegmentEval(v, p, idx) ==
    LET g == Segment(p, idx)
        alpha == Alpha(v, g)
    IN  [y |-> Add(g.y0, Mul(g.h, Beta(g, alpha))), gradient |-> Gradient(g, alpha)]

\* C10: knot interpolation. With valid parameters, the forward pass at
\* x = knots_xcoords[i] yields knots_ycoords[i] with gradient derivs[i], for
\* every knot 0..K, and the segment on either side of the knot gives that
\* same result.
C10_KnotInterpolation ==
    (pc = "forward" /\ ValidParams(params))
      => \A c \in Coords(x), i \in 0 .. NumSegments(params) :
           At(x, c) = Gather(params.knots_xcoords, i)
             => /\ FwdCoord(At(x, c), params)
                     = [y |-> Gather(params.knots_ycoords, i),
                        gradient |-> Gather(params.derivs, i)]
                /\ \A idx \in {i - 1, i} \cap (0 .. NumSegments(params) - 1) :
                     SegmentEval(At(x, c), params, idx) = FwdCoord(At(x, c), params)
                /\ fwd.status = "ok" =>
                     At(fwd.out, c) = Gather(params.knots_ycoords, i)

C10_Witness ==
    /\ pc = "forward"
    /\ ValidParams(params)
    /\ fwd.status = "ok"
    /\ \E i \in 1 .. NumSegments(params) - 1 :
         /\ x = <<<<Gather(params.knots_xcoords, i)>>>>
         /\ Gather(params.derivs, i) # Gather(params.derivs, i - 1)
         /\ Gather(params.derivs, i) # Gather(params.derivs, i + 1)
         /\ Gather(params.widths, i) # Gather(params.heights, i)

===========================================================================
